---------------------------- MODULE Spec2Model ----------------------------
(***************************************************************************)
(* A model of ouster-parser: the IPv4 fragment reassembler                 *)
(* (src/src/sequence.rs), the legacy lidar frame decoder with its file     *)
(* sink thread (src/src/ouster.rs) and the capture loop of main            *)
(* (src/src/main.rs).                                                      *)
(*                                                                         *)
(* Byte arrays (the 65535-byte chunk buffer, the returned Vec<u8>) are     *)
(* sparse: a function from the offsets that hold a non-zero byte to that   *)
(* byte, every other offset reading 0, as in the zero-initialised array.   *)
(* u16 arithmetic wraps modulo 2^16 (a build without overflow checks).     *)
(***************************************************************************)
EXTENDS Integers, Sequences, FiniteSets, TLC

VARIABLES
    buffer,     \* IPV4Seq.buffer: flow key -> chunk [data, holes, len]
    pkt,        \* the fragment given to the last put_and_get call
    ret,        \* what the last put_and_get call returned
    calls,      \* number of put_and_get calls made so far
    nret,       \* number of calls that returned a datagram so far
    pending,    \* fragments of the datagram `orig` not yet submitted
    orig,       \* the datagram being cut into fragments: [key, tag, len, cuts]
    prevflows   \* the flows the table tracked when the last call was made

seqvars == <<buffer, pkt, ret, calls, nret, pending, orig, prevflows>>

VARIABLES
    metadata,   \* Legacy.metadata.data_format
    parser,     \* the Legacy of main: current_frame, current_timestamp,
                \* current_points, current_num_points, current_broken, id
    mainpc,     \* main thread: "capture" (the loop of process_pcap_data),
                \* "put" (the loop of Legacy::put), "dropped" (main's locals
                \* dropped), "panicked", "exited" (the process has ended)
    put_data,   \* the rest of the payload Legacy::put is working on
    capture,    \* a given capture: its payloads and the next one to read
    ev,         \* the last step of the decoder: its number, kind and block,
                \* and the broken flag and accepted blocks it found
    chan,       \* the mpsc channel: FileData sent and not yet received
    sent,       \* every FileData sent so far, with the faults seen by then
    sinkpc,     \* sink thread: "recv", "create", "header", "data", "done"
    file_data,  \* the FileData the sink is writing
    files,      \* the file system: path -> content
    taken,      \* every FileData the sink received so far, in order
    nwritten    \* files the sink has written completely

decvars == <<metadata, parser, mainpc, put_data, capture, ev, chan, sent,
             sinkpc, file_data, files, taken, nwritten>>

vars == <<seqvars, decvars>>

----------------------------------------------------------------------------
(* Bounds of the model *)

MaxCalls == 3       \* put_and_get calls in one behaviour
MaxUnits == 3       \* a cut datagram has at most MaxUnits 8-byte units before its tail
MaxTail == 5        \* and a final fragment of at most MaxTail more bytes
MaxBlocks == 3      \* measurement blocks and short payloads given to the decoder
MaxFrameId == 2     \* frame ids are in 0..MaxFrameId
MaxShort == 5       \* put_and_get calls in one behaviour of short fragments

----------------------------------------------------------------------------
(* sequence.rs: constants and types *)

PACKET_MAX_SIZE == 65535

U16 == 65536

Min(a, b) == IF a < b THEN a ELSE b

\* byte `pos` of the datagram with content tag `tag`: never 0, and different
\* for the two tags at every position
Byte(tag, pos) == ((tag * 101 + pos * 7) % 255) + 1

\* the payload of a fragment: n bytes of datagram `tag` from byte offset `first`
Payload(tag, first, n) == [i \in 1..n |-> Byte(tag, first + i - 1)]

EmptyBytes == [i \in {} |-> 0]

\* a Vec<u8>: its length and its non-zero bytes by 0-based index
VecOf(s) == [len |-> Len(s), at |-> [i \in {j \in 0..(Len(s) - 1) : s[j + 1] # 0} |-> s[i + 1]]]

\* Option<Vec<u8>>
None == [some |-> FALSE, vec |-> [len |-> 0, at |-> EmptyBytes]]

Some(v) == [some |-> TRUE, vec |-> v]

Keys == {[source |-> 1, dest |-> 2, proto |-> 17, id |-> i] : i \in {7, 8}}

IPV4Chunk_new ==
    [data |-> EmptyBytes,
     holes |-> << [first |-> 0, last |-> PACKET_MAX_SIZE % U16] >>,
     len |-> PACKET_MAX_SIZE % U16]

IPV4Seq_new == [k \in {} |-> IPV4Chunk_new]


----------------------------------------------------------------------------
(* sequence.rs: IPV4Seq::put_and_get *)

\* lines 91-92: data_first = offset * 8, data_last = data_first + length, in u16
data_first(p) == (p.offset * 8) % U16

data_last(p) == (data_first(p) + (Len(p.payload) % U16)) % U16

\* malformed without the test of the wrapped end offset
malformed_no_wrap(p) == p.mf /\ ((Len(p.payload) % U16) % 8) # 0

\* lines 87-96: the fragment is dropped before its flow is looked up
malformed(p) ==
    \/ p.mf /\ ((Len(p.payload) % U16) % 8) # 0
    \/ data_last(p) < data_first(p)

\* line 120: the hole test of the loop
overlaps(hole, first, last) == first < hole.last /\ last > hole.first

\* lines 119-147: the index (1-based) of the first hole of the list that the
\* range overlaps, 0 when there is none (remove_index = usize::MAX)
remove_index(holes, first, last) ==
    LET S == {i \in 1..Len(holes) : overlaps(holes[i], first, last)}
    IN  IF S = {} THEN 0 ELSE CHOOSE i \in S : \A j \in S : i <= j

\* line 121: the range leaves the hole on one side
out_of_hole(hole, first, last) == first < hole.first \/ last > hole.last

\* append_list without the residual hole before the fragment
append_list_no_front(hole, first, last, mf) ==
    IF last < hole.last /\ mf
        THEN << [first |-> last, last |-> hole.last] >> ELSE << >>

\* append_list with the residual hole after the fragment starting at the
\* fragment's first byte
append_list_back_from_first(hole, first, last, mf) ==
    (IF first > hole.first
        THEN << [first |-> hole.first, last |-> first] >> ELSE << >>)
    \o
    (IF last < hole.last /\ mf
        THEN << [first |-> first, last |-> hole.last] >> ELSE << >>)

\* lines 126-142: the residual holes of a hole split by [first,last)
append_list(hole, first, last, mf) ==
    (IF first > hole.first
        THEN << [first |-> hole.first, last |-> first] >> ELSE << >>)
    \o
    (IF last < hole.last /\ mf
        THEN << [first |-> last, last |-> hole.last] >> ELSE << >>)

\* Vec::remove(index)
RemoveAt(s, i) == SubSeq(s, 1, i - 1) \o SubSeq(s, i + 1, Len(s))

\* line 157: chunk.data[first..][..payload.len()].copy_from_slice(payload)
copy_from_slice(data, first, payload) ==
    LET R == first..(first + Len(payload) - 1)
        D == (DOMAIN data \ R) \cup {i \in R : payload[i - first + 1] # 0}
    IN  [i \in D |-> IF i \in R THEN payload[i - first + 1] ELSE data[i]]

\* lines 105-107: the chunk of the flow, created when the key is new
with_chunk(buf, key) ==
    [k \in DOMAIN buf \cup {key} |->
        IF k \in DOMAIN buf THEN buf[k] ELSE IPV4Chunk_new]

\* lines 109-158: the fragment put into its flow's chunk; the table is
\* cleared (and the call returns) when the range leaves the hole it overlaps
insert(buf, p) ==
    LET first == data_first(p)
        last == data_last(p)
        b1 == with_chunk(buf, p.key)
        chunk == b1[p.key]
        len1 == IF ~p.mf THEN last ELSE chunk.len
        idx == remove_index(chunk.holes, first, last)
    IN  IF idx # 0 /\ out_of_hole(chunk.holes[idx], first, last)
        THEN [cleared |-> TRUE, buffer |-> IPV4Seq_new]
        ELSE [cleared |-> FALSE,
              buffer |->
                [b1 EXCEPT ![p.key] =
                    [data |-> copy_from_slice(chunk.data, first, p.payload),
                     holes |-> IF idx = 0 THEN chunk.holes
                               ELSE RemoveAt(chunk.holes, idx)
                                    \o append_list(chunk.holes[idx], first, last, p.mf),
                     len |-> len1]]]

\* insert whose reset drops the offending flow only
insert_flow_reset(buf, p) ==
    LET r == insert(buf, p)
    IN  IF r.cleared
        THEN [cleared |-> TRUE, buffer |-> [k \in DOMAIN buf \ {p.key} |-> buf[k]]]
        ELSE r

\* lines 109-158 as called from put_and_get
insert_fragment(buf, p) == insert(buf, p)

\* line 172: buffer.data[..buffer.len].to_vec()
to_vec(chunk) ==
    [len |-> chunk.len,
     at |-> [i \in {j \in DOMAIN chunk.data : j < chunk.len} |-> chunk.data[i]]]

\* HashMap::remove(key)
without(buf, key) == [k \in DOMAIN buf \ {key} |-> buf[k]]

\* lines 160-182: the scan of the table. The iteration order of the HashMap
\* is not fixed, so the first flow found with no hole is any such flow; an
\* empty vec_data (a recorded length of 0) makes the call return None.
scan(buf) ==
    LET complete == {k \in DOMAIN buf : buf[k].holes = << >>}
    IN  IF complete = {}
        THEN {[buffer |-> buf, ret |-> None]}
        ELSE {IF buf[k].len = 0
                 THEN [buffer |-> buf, ret |-> None]
                 ELSE [buffer |-> without(buf, k), ret |-> Some(to_vec(buf[k]))]
              : k \in complete}

\* put_and_get testing DF after the malformed-fragment tests
put_and_get_df_late(buf, p) ==
    IF malformed(p) THEN {[buffer |-> buf, ret |-> None]}
    ELSE IF p.df THEN {[buffer |-> buf, ret |-> Some(VecOf(p.payload))]}
    ELSE LET r == insert_fragment(buf, p)
         IN  IF r.cleared THEN {[buffer |-> r.buffer, ret |-> None]}
             ELSE scan(r.buffer)

\* lines 75-183: the outcomes of put_and_get(pkt) on the table buf
put_and_get(buf, p) ==
    IF p.df THEN {[buffer |-> buf, ret |-> Some(VecOf(p.payload))]}
    ELSE IF malformed(p) THEN {[buffer |-> buf, ret |-> None]}
    ELSE LET r == insert_fragment(buf, p)
         IN  IF r.cleared THEN {[buffer |-> r.buffer, ret |-> None]}
             ELSE scan(r.buffer)

----------------------------------------------------------------------------
(* The fragments given to the reassembler *)

Offsets == {0, 1, 2, 8191}

Lengths == {0, 4, 8, 12, 16}

Tags == {1, 2}

\* the content of the fragments of a flow
TagOf(k) == IF k.id = 7 THEN 1 ELSE 2

Fragments ==
    {[key |-> k, offset |-> o, mf |-> m, df |-> d,
      payload |-> Payload(TagOf(k), 8 * o, n)] :
        k \in Keys, o \in Offsets, m \in BOOLEAN, d \in BOOLEAN, n \in Lengths}

NoPkt == [key |-> CHOOSE k \in Keys : TRUE, offset |-> 0, mf |-> FALSE, df |-> FALSE,
          payload |-> << >>]

NoDatagram == [key |-> CHOOSE k \in Keys : TRUE, tag |-> 0, len |-> 0, cuts |-> {}]

\* the datagrams cut into fragments: L bytes, cut at multiples of 8
Datagrams ==
    {[key |-> k, tag |-> t, len |-> L, cuts |-> C] :
        k \in Keys, t \in Tags,
        L \in 1..(8 * MaxUnits + MaxTail),
        C \in SUBSET {8 * i : i \in 1..MaxUnits}}

\* the fragments of datagram d: they partition [0, d.len)
FragmentsOf(d) ==
    LET B == {0, d.len} \cup {c \in d.cuts : c < d.len}
        next(b) == CHOOSE x \in B : x > b /\ \A y \in B : y > b => x <= y
    IN  {[key |-> d.key, offset |-> b \div 8, mf |-> next(b) # d.len, df |-> FALSE,
          payload |-> Payload(d.tag, b, next(b) - b)] : b \in B \ {d.len}}

\* one call of put_and_get
Call(p) ==
    \E o \in put_and_get(buffer, p) :
        /\ buffer' = o.buffer
        /\ ret' = o.ret
        /\ pkt' = p
        /\ calls' = calls + 1
        /\ nret' = IF o.ret.some THEN nret + 1 ELSE nret
        /\ prevflows' = DOMAIN buffer

InitSeqVars ==
    /\ buffer = IPV4Seq_new
    /\ pkt = NoPkt
    /\ ret = None
    /\ calls = 0
    /\ nret = 0
    /\ prevflows = {}
    /\ pending = {}
    /\ orig = NoDatagram

\* any fragment is submitted
Submit ==
    /\ calls < MaxCalls
    /\ \E p \in Fragments : Call(p)
    /\ UNCHANGED <<pending, orig>>
    /\ UNCHANGED decvars

\* the fragments without DF of at most 8 bytes at offsets 0 and 8
ShortFragments ==
    {p \in Fragments : ~p.df /\ p.offset \in {0, 1} /\ Len(p.payload) \in {0, 8}}

\* a short fragment is submitted
SubmitShort ==
    /\ calls < MaxShort
    /\ \E p \in ShortFragments : Call(p)
    /\ UNCHANGED <<pending, orig>>
    /\ UNCHANGED decvars

InitPermVars ==
    /\ buffer = IPV4Seq_new
    /\ pkt = NoPkt
    /\ ret = None
    /\ calls = 0
    /\ nret = 0
    /\ prevflows = {}
    /\ orig \in {d \in Datagrams : \A c \in d.cuts : c < d.len}
    /\ pending = FragmentsOf(orig)

\* the fragments of one datagram are submitted in any order
SubmitPending ==
    /\ \E p \in pending :
        /\ Call(p)
        /\ pending' = pending \ {p}
    /\ UNCHANGED orig
    /\ UNCHANGED decvars

----------------------------------------------------------------------------
(* ouster.rs: the legacy decoder, Legacy *)

\* line 158: 0xffffffff, as the four bytes read_u32 reads (little endian)
STATUS_OK == << 255, 255, 255, 255 >>

\* main.rs line 57: the default digit width of the file names
Digit == 4

\* data_format of the metadata file: the formats the decoder is built with
DataFormats ==
    {f \in [columns_per_frame : {1, 2},
            columns_per_packet : {1, 2},
            pixels_per_column : {1, 2}] :
        f.columns_per_frame % f.columns_per_packet = 0}

\* the status word is 0xFFFFFFFF
ValidStatus(b) == \A i \in 1..4 : b.status[i] = 255

\* the reading of a channel block is valid: the low 20 bits of its first
\* word and its reflectivity are both non-zero
ValidReading(c) ==
    /\ (c.word[1] # 0 \/ c.word[2] # 0 \/ c.word[3] % 16 # 0)
    /\ c.reflect # 0

ValidReadings(b) == Cardinality({ch \in 1..Len(b.channels) : ValidReading(b.channels[ch])})

\* no block accepted
NoneAccepted == [blocks |-> 0, timestamp |-> 0, valid |-> 0]

\* the blocks accepted, with one more
Accept(a, b) ==
    [blocks |-> a.blocks + 1,
     timestamp |-> IF a.blocks = 0 \/ b.timestamp < a.timestamp THEN b.timestamp
                   ELSE a.timestamp,
     valid |-> a.valid + ValidReadings(b)]

\* lines 119-134: the fields of Legacy::new that change afterwards. `faults`
\* and `accepted` are ghosts: the number of faults (short payloads, bad status
\* words) seen, and of the blocks accepted (set_current_state returned true)
\* since the last accepted block that carried another frame id than
\* current_frame, that block included: their number, their least timestamp
\* and the number of their valid readings.
Legacy_new ==
    [current_frame |-> 0,
     current_timestamp |-> 0,
     current_points |-> << >>,
     current_num_points |-> 0,
     current_broken |-> FALSE,
     id |-> 0,
     faults |-> 0,
     accepted |-> NoneAccepted]

\* lines 242-270: the four f32 of a point, as terms of what each is computed
\* from (x and y from range, measure_id and channel, z from range and
\* channel, reflect from the reflectivity byte)
calculate_xyz(range, reflect, measure_id, channel) ==
    [x |-> <<"x", range, measure_id, channel>>,
     y |-> <<"y", range, measure_id, channel>>,
     z |-> <<"z", range, channel>>,
     reflect |-> <<"reflect", reflect>>]

\* line 193: read_u32::<LittleEndian>() << 12 >> 12 in u32, of the bytes
\* b[1]..b[4]: the shift left drops bits 20..31, the high half of b[3] and b[4]
range_of(b) == b[1] + 256 * b[2] + 65536 * (b[3] % 16)

\* an f32 of current_points with a ghost stamp: the number of faults seen and
\* the broken flag when it was pushed
Stamped(p, v) == [v |-> v, faults |-> p.faults, broken |-> p.current_broken]

\* lines 191-207: parse_data_block; data is the channel block as the two
\* fields read from it, data.word (bytes 0..4) and data.reflect (byte 4)
parse_data_block(p, data, measure_id, channel) ==
    LET range == range_of(data.word)
        reflect == data.reflect
        point == calculate_xyz(range, reflect, measure_id, channel)
    IN  IF range = 0 \/ reflect = 0 THEN p
        ELSE [p EXCEPT !.current_points =
                @ \o << Stamped(p, point.x), Stamped(p, point.y),
                        Stamped(p, point.z), Stamped(p, point.reflect) >>]

\* decimal digits of n, most significant first
RECURSIVE Digits(_)
Digits(n) == IF n < 10 THEN << n >> ELSE Digits(n \div 10) \o << n % 10 >>

\* line 308: format!("{:0width$}.pcd", id)
filename(id, width) ==
    LET ds == Digits(id)
    IN  [i \in 1..(IF Len(ds) < width THEN width - Len(ds) ELSE 0) |-> 0] \o ds \o << ".pcd" >>

\* lines 281-286 and 313: the point buffer as bytes, 4 for each f32
to_bytes(points) ==
    [i \in 1..(Len(points) * 4) |-> << points[((i - 1) \div 4) + 1], (i - 1) % 4 >>]

\* pcd_header announcing the number of f32 as the number of points
pcd_header_f32_count(p) ==
    << "timestamp", p.current_timestamp,
       "WIDTH", Len(p.current_points),
       "POINTS", Len(p.current_points) >>

\* lines 288-304: the header text, as the values formatted into it
pcd_header(p) ==
    << "timestamp", p.current_timestamp,
       "WIDTH", Len(p.current_points) \div 4,
       "POINTS", Len(p.current_points) \div 4 >>

\* save_pcd leaving the file counter as it is
save_pcd_same_id(p) ==
    [parser |-> p,
     send |-> << [header |-> pcd_header(p),
                  data |-> to_bytes(p.current_points),
                  path |-> filename(p.id, Digit)] >>]

\* lines 272-320: save_pcd: the FileData sent to the sink, and id + 1
save_pcd(p) ==
    [parser |-> [p EXCEPT !.id = @ + 1],
     send |-> << [header |-> pcd_header(p),
                  data |-> to_bytes(p.current_points),
                  path |-> filename(p.id, Digit)] >>]

\* lines 223-238: set_current_state when the stream is not broken
frame_state(p, header, fmt) ==
    IF header.frame_id # p.current_frame
    THEN LET s == IF p.current_num_points
                       >= fmt.columns_per_frame * fmt.pixels_per_column
                  THEN save_pcd(p)
                  ELSE [parser |-> p, send |-> << >>]
         IN  [parser |-> [s.parser EXCEPT !.current_points = << >>,
                                          !.current_num_points = 0,
                                          !.current_frame = header.frame_id,
                                          !.current_timestamp = header.timestamp],
              send |-> s.send,
              ok |-> TRUE]
    ELSE [parser |-> IF header.timestamp < p.current_timestamp
                     THEN [p EXCEPT !.current_timestamp = header.timestamp]
                     ELSE p,
          send |-> << >>,
          ok |-> TRUE]

\* set_current_state flushing a frame only when it holds more readings than
\* columns_per_frame * pixels_per_column
set_current_state_strict(p, header, fmt) ==
    IF p.current_broken
    THEN IF header.frame_id # p.current_frame
         THEN frame_state([p EXCEPT !.current_broken = FALSE,
                                    !.current_points = << >>,
                                    !.current_num_points = 0], header, fmt)
         ELSE [parser |-> p, send |-> << >>, ok |-> FALSE]
    ELSE IF header.frame_id # p.current_frame
              /\ p.current_num_points = fmt.columns_per_frame * fmt.pixels_per_column
         THEN [parser |-> [p EXCEPT !.current_points = << >>,
                                    !.current_num_points = 0,
                                    !.current_frame = header.frame_id,
                                    !.current_timestamp = header.timestamp],
               send |-> << >>,
               ok |-> TRUE]
         ELSE frame_state(p, header, fmt)

\* set_current_state flushing the ending frame whatever it holds
set_current_state_always_flush(p, header, fmt) ==
    IF p.current_broken
    THEN IF header.frame_id # p.current_frame
         THEN frame_state([p EXCEPT !.current_broken = FALSE,
                                    !.current_points = << >>,
                                    !.current_num_points = 0], header, fmt)
         ELSE [parser |-> p, send |-> << >>, ok |-> FALSE]
    ELSE frame_state(p, header,
            [fmt EXCEPT !.columns_per_frame = 0])

\* set_current_state leaving the broken flag without emptying the buffer
set_current_state_no_clear(p, header, fmt) ==
    IF p.current_broken
    THEN IF header.frame_id # p.current_frame
         THEN frame_state([p EXCEPT !.current_broken = FALSE], header, fmt)
         ELSE [parser |-> p, send |-> << >>, ok |-> FALSE]
    ELSE frame_state(p, header, fmt)

\* lines 209-240: set_current_state; fmt is the data_format of the metadata.
\* The call of line 218 is made with current_broken false: it runs lines
\* 223-238.
set_current_state(p, header, fmt) ==
    IF p.current_broken
    THEN IF header.frame_id # p.current_frame
         THEN frame_state([p EXCEPT !.current_broken = FALSE,
                                    !.current_points = << >>,
                                    !.current_num_points = 0], header, fmt)
         ELSE [parser |-> p, send |-> << >>, ok |-> FALSE]
    ELSE frame_state(p, header, fmt)

\* parse_channels counting the readings that gave a point only
RECURSIVE parse_channels_valid_only(_, _, _, _)
parse_channels_valid_only(p, channels, measure_id, channel) ==
    IF channel >= Len(channels) THEN p
    ELSE LET q == parse_data_block(p, channels[channel + 1], measure_id, channel)
         IN  parse_channels_valid_only(
                IF q = p THEN p ELSE [q EXCEPT !.current_num_points = @ + 1],
                channels, measure_id, channel + 1)

\* lines 182-188: the channel blocks of a measurement block, in order
RECURSIVE parse_channels(_, _, _, _)
parse_channels(p, channels, measure_id, channel) ==
    IF channel >= Len(channels) THEN p
    ELSE parse_channels(
            [parse_data_block(p, channels[channel + 1], measure_id, channel)
                EXCEPT !.current_num_points = @ + 1],
            channels, measure_id, channel + 1)

\* parse_measure_block leaving the broken flag alone on a bad status word
parse_measure_block_no_broken(p, data, fmt) ==
    IF data.status # STATUS_OK
    THEN [parser |-> [p EXCEPT !.faults = @ + 1], send |-> << >>]
    ELSE LET header == [timestamp |-> data.timestamp,
                        measure_id |-> data.measure_id,
                        frame_id |-> data.frame_id]
             r == set_current_state(p, header, fmt)
         IN  IF ~r.ok THEN [parser |-> r.parser, send |-> r.send]
             ELSE [parser |-> [parse_channels(r.parser, data.channels, header.measure_id, 0)
                                EXCEPT !.accepted =
                                    Accept(IF header.frame_id # p.current_frame
                                           THEN NoneAccepted ELSE @, data)],
                   send |-> r.send]

\* parse_measure_block reading the channels of a block that set_current_state
\* refused
parse_measure_block_no_discard(p, data, fmt) ==
    IF data.status # STATUS_OK
    THEN [parser |-> [p EXCEPT !.current_broken = TRUE, !.faults = @ + 1],
          send |-> << >>]
    ELSE LET header == [timestamp |-> data.timestamp,
                        measure_id |-> data.measure_id,
                        frame_id |-> data.frame_id]
             r == set_current_state(p, header, fmt)
         IN  [parser |-> [parse_channels(r.parser, data.channels, header.measure_id, 0)
                            EXCEPT !.accepted =
                                Accept(IF header.frame_id # p.current_frame
                                       THEN NoneAccepted ELSE @, data)],
              send |-> r.send]

\* lines 154-189: parse_measure_block; data is the block as the fields read
\* from it: timestamp, measure_id, frame_id, the channel blocks, status
parse_measure_block(p, data, fmt) ==
    IF data.status # STATUS_OK
    THEN [parser |-> [p EXCEPT !.current_broken = TRUE, !.faults = @ + 1],
          send |-> << >>]
    ELSE LET header == [timestamp |-> data.timestamp,
                        measure_id |-> data.measure_id,
                        frame_id |-> data.frame_id]
             r == set_current_state(p, header, fmt)
         IN  IF ~r.ok THEN [parser |-> r.parser, send |-> r.send]
             ELSE [parser |-> [parse_channels(r.parser, data.channels, header.measure_id, 0)
                                EXCEPT !.accepted =
                                    Accept(IF header.frame_id # p.current_frame
                                           THEN NoneAccepted ELSE @, data)],
                   send |-> r.send]

\* line 141: len_column
len_column(fmt) == 20 + fmt.pixels_per_column * 12

\* line 142: len_expected
len_expected(fmt) == fmt.columns_per_packet * len_column(fmt)

----------------------------------------------------------------------------
(* The payloads given to the decoder *)

Patterns == {"valid", "invalid", "mixed"}

\* channel block ch of a measurement block: bits 20..31 of the first word are
\* flags, the low 20 bits the range
ChannelOf(pat, ch) ==
    CASE pat = "valid" -> [word |-> << 232 + ch, 3, 48, 7 >>, reflect |-> 200]
      [] pat = "invalid" -> IF ch % 2 = 0 THEN [word |-> << 0, 0, 80, 255 >>, reflect |-> 9]
                                          ELSE [word |-> << 7, 0, 0, 0 >>, reflect |-> 0]
      [] pat = "mixed" -> IF ch = 0 THEN [word |-> << 232, 3, 0, 0 >>, reflect |-> 1]
                                    ELSE [word |-> << 0, 0, 240, 255 >>, reflect |-> 255]

TimestampOf(pat) == CASE pat = "valid" -> 20 [] pat = "invalid" -> 10 [] pat = "mixed" -> 30

MeasureIdOf(pat) == IF pat = "valid" THEN 0 ELSE 1

Block(fid, pat, fmt) ==
    [timestamp |-> TimestampOf(pat),
     measure_id |-> MeasureIdOf(pat),
     frame_id |-> fid,
     channels |-> [ch \in 1..fmt.pixels_per_column |-> ChannelOf(pat, ch - 1)],
     status |-> STATUS_OK]

BadBlock(fmt) == [Block(1, "valid", fmt) EXCEPT !.status = << 255, 255, 255, 127 >>]

Blocks(fmt) ==
    {Block(fid, pat, fmt) : fid \in 0..MaxFrameId, pat \in Patterns} \cup {BadBlock(fmt)}

NoBlock == [timestamp |-> 0, measure_id |-> 0, frame_id |-> 0, channels |-> << >>,
            status |-> << 0, 0, 0, 0 >>]

\* a block of a payload: a given one, or any block (chosen when it is parsed)
Given(b) == [any |-> FALSE, block |-> b]

AnyBlock == [any |-> TRUE, block |-> NoBlock]

\* a payload: its measurement blocks and the bytes after the last whole block
DataLen(d, fmt) == Len(d.blocks) * len_column(fmt) + d.tail

NoData == [blocks |-> << >>, tail |-> 0]

\* no given capture: the payloads are any payloads
NoCapture == [all |-> << >>, next |-> 1]

----------------------------------------------------------------------------
(* main.rs and ouster.rs: the main thread *)

\* what a step of the decoder found: the broken flag and the number of blocks
\* accepted into the current frame
Before == [broken |-> parser.current_broken, accepted |-> parser.accepted.blocks]

\* the decoder and the channel after save_pcd's sends
Sends(r) ==
    /\ parser' = r.parser
    /\ chan' = chan \o r.send
    /\ sent' = sent \o [i \in 1..Len(r.send) |->
                        [fd |-> r.send[i], faults |-> parser.faults,
                         accepted |-> parser.accepted]]

\* ouster.rs lines 137-147, main.rs lines 97-101: process_block gives a
\* payload to Legacy::put, which marks the stream broken when it is short and
\* starts its loop otherwise
put_enter(d) ==
    /\ mainpc = "capture"
    /\ IF DataLen(d, metadata) < len_expected(metadata)
       THEN /\ parser' = [parser EXCEPT !.current_broken = TRUE, !.faults = @ + 1]
            /\ ev' = [n |-> ev.n + 1, kind |-> "short", block |-> NoBlock, was |-> Before]
            /\ UNCHANGED <<mainpc, put_data>>
       ELSE /\ mainpc' = "put"
            /\ put_data' = d
            /\ UNCHANGED <<parser, ev>>
    /\ UNCHANGED <<metadata, chan, sent, sinkpc, file_data, files, taken, nwritten>>

\* a payload of the capture reaches the decoder
ProcessBlock ==
    /\ capture.all = << >>
    /\ \E nb \in 0..(metadata.columns_per_packet + 1), t \in {0, 1} :
        /\ ev.n + (IF nb = 0 THEN 1 ELSE nb) <= MaxBlocks
        /\ put_enter([blocks |-> [i \in 1..nb |-> AnyBlock], tail |-> t])
    /\ UNCHANGED capture
    /\ UNCHANGED seqvars

\* the next payload of a given capture reaches the decoder
Replay ==
    /\ capture.next <= Len(capture.all)
    /\ put_enter(capture.all[capture.next])
    /\ capture' = [capture EXCEPT !.next = @ + 1]
    /\ UNCHANGED seqvars

\* main.rs line 136: the configured port (cli.port), here 7502
Port == 7502

\* the bytes of a transport datagram for destination port dport with n more
\* bytes after the first 8: source port, destination port (big endian), then
\* the length and checksum of UDP or the sequence number of TCP
Transport(dport, n) ==
    << 0, 1, dport \div 256, dport % 256, 0, 8 + n, 0, 0 >> \o [i \in 1..n |-> 40 + i]

\* the IPv4 packets of the frames of a capture: UDP and TCP flows, to the
\* configured port and to the next one, each datagram whole (with DF or
\* without), cut in two fragments, or too short for a UDP header
Packets ==
    LET keys == {[source |-> 1, dest |-> 2, proto |-> pr, id |-> 7] : pr \in {6, 17}}
    IN  UNION {
            {[key |-> k, offset |-> 0, mf |-> FALSE, df |-> d, payload |-> Transport(dp, 8)] :
                d \in BOOLEAN}
            \cup {[key |-> k, offset |-> 0, mf |-> TRUE, df |-> FALSE,
                   payload |-> SubSeq(Transport(dp, 8), 1, 8)],
                  [key |-> k, offset |-> 1, mf |-> FALSE, df |-> FALSE,
                   payload |-> SubSeq(Transport(dp, 8), 9, 16)],
                  [key |-> k, offset |-> 0, mf |-> FALSE, df |-> TRUE,
                   payload |-> SubSeq(Transport(dp, 8), 1, 4)]}
            : k \in keys, dp \in {Port, Port + 1}}

\* main.rs lines 131-134: udp::Packet::new(data) fails on a buffer shorter
\* than the 8 bytes of the UDP header
udp_new(v) == v.len >= 8

\* main.rs line 136: udp.destination(), bytes 2 and 3 in network order
destination(v) ==
    (IF 2 \in DOMAIN v.at THEN v.at[2] ELSE 0) * 256 + (IF 3 \in DOMAIN v.at THEN v.at[3] ELSE 0)

\* main.rs line 137: udp.payload().to_vec(), the bytes after the UDP header,
\* as Legacy::put splits them: whole blocks of len_column bytes and the rest
udp_payload(v, fmt) ==
    [blocks |-> [i \in 1..((v.len - 8) \div len_column(fmt)) |-> AnyBlock],
     tail |-> (v.len - 8) % len_column(fmt)]

\* main.rs lines 97-101 and 115-141: process_block on a frame that holds the
\* IPv4 packet p (a frame that is no Ethernet frame or holds no IPv4 packet
\* returns at lines 116-124 and changes nothing): the packet goes to the
\* reassembler, what it returns is read as a UDP datagram and, when its
\* destination port is the configured one, its payload is given to Legacy::put
ProcessPacket ==
    /\ mainpc = "capture"
    /\ calls < MaxCalls
    /\ \E p \in Packets : \E o \in put_and_get(buffer, p) :
        /\ buffer' = o.buffer
        /\ ret' = o.ret
        /\ pkt' = p
        /\ calls' = calls + 1
        /\ nret' = IF o.ret.some THEN nret + 1 ELSE nret
        /\ prevflows' = DOMAIN buffer
        /\ IF o.ret.some /\ udp_new(o.ret.vec) /\ destination(o.ret.vec) = Port
           THEN put_enter(udp_payload(o.ret.vec, metadata))
           ELSE UNCHANGED <<metadata, parser, mainpc, put_data, ev, chan, sent,
                            sinkpc, file_data, files, taken, nwritten>>
    /\ UNCHANGED <<pending, orig, capture>>

\* ouster.rs lines 149-151: one iteration of the loop of Legacy::put: the
\* next len_column bytes are parsed, or the slice ends after the payload and
\* the thread panics
PutStep ==
    /\ mainpc = "put"
    /\ IF put_data.blocks = << >>
       THEN /\ mainpc' = "panicked"
            /\ ev' = [n |-> ev.n + 1, kind |-> "panic", block |-> NoBlock, was |-> Before]
            /\ put_data' = NoData
            /\ UNCHANGED <<parser, chan, sent>>
       ELSE \E b \in (IF Head(put_data.blocks).any THEN Blocks(metadata)
                                              ELSE {Head(put_data.blocks).block}) :
            /\ Sends(parse_measure_block(parser, b, metadata))
            /\ ev' = [n |-> ev.n + 1, kind |-> "block", block |-> b, was |-> Before]
            /\ IF Len(put_data.blocks) = 1 /\ put_data.tail = 0
               THEN mainpc' = "capture" /\ put_data' = NoData
               ELSE mainpc' = "put" /\ put_data' = [put_data EXCEPT !.blocks = Tail(@)]
    /\ UNCHANGED <<metadata, capture, sinkpc, file_data, files, taken, nwritten>>
    /\ UNCHANGED seqvars

\* main.rs lines 74-75: process_pcap_data returns and main's locals are
\* dropped, the Legacy and its Sender with them: the channel is closed
EndCapture ==
    /\ mainpc = "capture"
    /\ capture.next > Len(capture.all)
    /\ mainpc' = "dropped"
    /\ UNCHANGED <<metadata, parser, put_data, capture, ev, chan, sent,
                   sinkpc, file_data, files, taken, nwritten>>
    /\ UNCHANGED seqvars

\* main returns (or its panic has unwound): the process ends, and the sink
\* thread, which nothing joins, ends with it
Exit ==
    /\ mainpc \in {"dropped", "panicked"}
    /\ mainpc' = "exited"
    /\ UNCHANGED <<metadata, parser, put_data, capture, ev, chan, sent,
                   sinkpc, file_data, files, taken, nwritten>>
    /\ UNCHANGED seqvars

----------------------------------------------------------------------------
(* ouster.rs lines 111-117: the sink thread *)

NoFile == [header |-> << >>, data |-> << >>, path |-> << >>]

\* the receiver takes the newest FileData of the channel
receive_newest(ch) == [item |-> ch[Len(ch)], rest |-> SubSeq(ch, 1, Len(ch) - 1)]

\* line 112: the iteration of the receiver takes the oldest FileData
receive(ch) == [item |-> Head(ch), rest |-> Tail(ch)]

\* File::create: the file at path exists and is empty
create(fs, path) == [q \in DOMAIN fs \cup {path} |-> IF q = path THEN << >> ELSE fs[q]]

\* File::write_all: the bytes are appended to the file
write_all(fs, path, bytes) == [fs EXCEPT ![path] = @ \o bytes]

SinkRecv ==
    /\ mainpc # "exited"
    /\ sinkpc = "recv"
    /\ chan # << >>
    /\ file_data' = receive(chan).item
    /\ chan' = receive(chan).rest
    /\ taken' = Append(taken, receive(chan).item)
    /\ sinkpc' = "create"
    /\ UNCHANGED <<metadata, parser, mainpc, put_data, capture, ev, sent, files, nwritten>>
    /\ UNCHANGED seqvars

\* line 113
SinkCreate ==
    /\ mainpc # "exited"
    /\ sinkpc = "create"
    /\ files' = create(files, file_data.path)
    /\ sinkpc' = "header"
    /\ UNCHANGED <<metadata, parser, mainpc, put_data, capture, ev, chan, sent,
                   file_data, taken, nwritten>>
    /\ UNCHANGED seqvars

\* line 114
SinkWriteHeader ==
    /\ mainpc # "exited"
    /\ sinkpc = "header"
    /\ files' = write_all(files, file_data.path, file_data.header)
    /\ sinkpc' = "data"
    /\ UNCHANGED <<metadata, parser, mainpc, put_data, capture, ev, chan, sent,
                   file_data, taken, nwritten>>
    /\ UNCHANGED seqvars

\* line 115
SinkWriteData ==
    /\ mainpc # "exited"
    /\ sinkpc = "data"
    /\ files' = write_all(files, file_data.path, file_data.data)
    /\ sinkpc' = "recv"
    /\ nwritten' = nwritten + 1
    /\ UNCHANGED <<metadata, parser, mainpc, put_data, capture, ev, chan, sent,
                   file_data, taken>>
    /\ UNCHANGED seqvars

\* line 112: the channel is empty and its Sender dropped: the loop ends
SinkEnd ==
    /\ mainpc \in {"dropped", "panicked"}
    /\ sinkpc = "recv"
    /\ chan = << >>
    /\ sinkpc' = "done"
    /\ UNCHANGED <<metadata, parser, mainpc, put_data, capture, ev, chan, sent,
                   file_data, files, taken, nwritten>>
    /\ UNCHANGED seqvars

----------------------------------------------------------------------------
(* The specifications *)

\* ouster.rs lines 88-135: Legacy::new, the sink thread spawned
InitDecoder ==
    /\ parser = Legacy_new
    /\ mainpc = "capture"
    /\ put_data = NoData
    /\ ev = [n |-> 0, kind |-> "none", block |-> NoBlock,
            was |-> [broken |-> FALSE, accepted |-> 0]]
    /\ chan = << >>
    /\ sent = << >>
    /\ sinkpc = "recv"
    /\ file_data = NoFile
    /\ files = [q \in {} |-> << >>]
    /\ taken = << >>
    /\ nwritten = 0

\* the decoder is left alone
DecoderIdle ==
    /\ metadata = [columns_per_frame |-> 1, columns_per_packet |-> 1, pixels_per_column |-> 1]
    /\ capture = NoCapture
    /\ InitDecoder

\* the reassembler alone, given any fragments
InitSeq == InitSeqVars /\ DecoderIdle

NextSeq == Submit

SpecSeq == InitSeq /\ [][NextSeq]_vars

\* the reassembler alone, given short fragments of two flows
InitShort == InitSeqVars /\ DecoderIdle

NextShort == SubmitShort

SpecShort == InitShort /\ [][NextShort]_vars

\* the reassembler alone, given the fragments of one datagram
InitPerm == InitPermVars /\ DecoderIdle

NextPerm == SubmitPending

SpecPerm == InitPerm /\ [][NextPerm]_vars

\* main.rs lines 61-75: the reassembler and the decoder of main, any capture
Init ==
    /\ InitSeqVars
    /\ metadata \in DataFormats
    /\ capture = NoCapture
    /\ InitDecoder

Sink == SinkRecv \/ SinkCreate \/ SinkWriteHeader \/ SinkWriteData \/ SinkEnd

Next == ProcessBlock \/ PutStep \/ EndCapture \/ Exit \/ Sink

Spec == Init /\ [][Next]_vars

\* a capture of two full frames: every block of frame f1, then every block of
\* frame f2, columns_per_packet blocks in each payload
FrameBlocks(fid, pat, fmt) ==
    [m \in 1..fmt.columns_per_frame |-> [Block(fid, pat, fmt) EXCEPT !.measure_id = m - 1]]

TwoFrames(f1, p1, f2, p2, fmt) ==
    LET bs == FrameBlocks(f1, p1, fmt) \o FrameBlocks(f2, p2, fmt)
        cpp == fmt.columns_per_packet
    IN  [i \in 1..(Len(bs) \div cpp) |->
            [blocks |-> [j \in 1..cpp |-> Given(bs[(i - 1) * cpp + j])], tail |-> 0]]

InitTwoFrames ==
    /\ InitSeqVars
    /\ metadata \in DataFormats
    /\ \E f1 \in 0..MaxFrameId, f2 \in 0..MaxFrameId, p1 \in Patterns, p2 \in Patterns :
        /\ f1 # f2
        /\ capture = [all |-> TwoFrames(f1, p1, f2, p2, metadata), next |-> 1]
    /\ InitDecoder

NextTwoFrames == Replay \/ PutStep \/ EndCapture \/ Exit \/ Sink

SpecTwoFrames == InitTwoFrames /\ [][NextTwoFrames]_vars

\* main.rs lines 61-101: the frames of a capture go through parse_packet
InitPacket ==
    /\ InitSeqVars
    /\ metadata \in {f \in DataFormats : f.columns_per_frame = 1}
    /\ capture = NoCapture
    /\ InitDecoder

NextPacket == ProcessPacket \/ EndCapture \/ Exit

SpecPacket == InitPacket /\ [][NextPacket]_vars

----------------------------------------------------------------------------
(* Claims about the reassembler *)

\* the byte at 0-based index i of a sparse byte array
ByteAt(bytes, i) == IF i \in DOMAIN bytes THEN bytes[i] ELSE 0

\* the datagram `orig` as a Vec<u8>
OrigVec == [len |-> orig.len, at |-> [i \in 0..(orig.len - 1) |-> Byte(orig.tag, i)]]

\* the end offset of the fragment as an integer, and whether 16 bits hold it
EndOffset(p) == p.offset * 8 + Len(p.payload)

Wraps(p) == EndOffset(p) >= U16

BadParity(p) == p.mf /\ Len(p.payload) % 8 # 0

\* the fragment's range overlaps a hole of its flow and leaves it on one side
Conflict(buf, p) ==
    /\ p.key \in DOMAIN buf
    /\ \E i \in 1..Len(buf[p.key].holes) :
        LET h == buf[p.key].holes[i]
        IN  /\ p.offset * 8 < h.last
            /\ EndOffset(p) > h.first
            /\ (p.offset * 8 < h.first \/ EndOffset(p) > h.last)

\* the fragment's bytes are in its flow's buffer with the recorded length set
\* to its end offset, or they are in the datagram the call returned
Inserted(buf, r, p) ==
    LET n == Len(p.payload)
        first == p.offset * 8
    IN  IF p.key \in DOMAIN buf
        THEN /\ buf[p.key].len = first + n
             /\ \A i \in 0..(n - 1) : ByteAt(buf[p.key].data, first + i) = p.payload[i + 1]
        ELSE /\ r.some
             /\ r.vec.len = first + n
             /\ \A i \in 0..(n - 1) : ByteAt(r.vec.at, first + i) = p.payload[i + 1]

\* C1: the fragments of a datagram of L >= 1 bytes that partition [0,L),
\* submitted in any order to an empty reassembler: every call but the last
\* returns nothing, the last returns exactly the L original bytes, once, and
\* the flow is removed from the table.
C1_ReassemblesOnce ==
    /\ pending # {} => (~ret.some /\ nret = 0)
    /\ pending = {} =>
        /\ ret = Some(OrigVec)
        /\ nret = 1
        /\ buffer = IPV4Seq_new

\* three fragments were submitted, the final one not last, and the datagram
\* with a tail shorter than 8 bytes came back
C1_Witness ==
    /\ pending = {}
    /\ calls = 3
    /\ pkt.mf
    /\ pkt.offset = 0
    /\ orig.len % 8 # 0
    /\ ret.some
    /\ ret.vec.len = orig.len

\* the same with the end offset as 16 bits hold it
Conflict16(buf, p) ==
    /\ p.key \in DOMAIN buf
    /\ \E i \in 1..Len(buf[p.key].holes) :
        LET h == buf[p.key].holes[i]
        IN  /\ p.offset * 8 < h.last
            /\ EndOffset(p) % U16 > h.first
            /\ (p.offset * 8 < h.first \/ EndOffset(p) % U16 > h.last)

\* C2 as stated: every non-DF fragment whose range [first,last) overlaps a
\* hole of its flow without lying inside it makes the call return nothing and
\* leaves the table empty.
C2_AnyConflictClears ==
    [][(calls' = calls + 1 /\ ~pkt'.df /\ Conflict16(buffer, pkt'))
        => (ret' = None /\ buffer' = IPV4Seq_new)]_vars

\* C2: a non-DF fragment that is not dropped as malformed (MF clear or a
\* length that is a multiple of 8, and an end offset that 16 bits hold) and
\* whose range overlaps a hole of its flow without lying inside it makes the
\* call return nothing and leaves the table empty, other flows included.
C2_ConflictClearsTable ==
    [][(calls' = calls + 1 /\ ~pkt'.df /\ ~BadParity(pkt') /\ ~Wraps(pkt')
            /\ Conflict(buffer, pkt'))
        => (ret' = None /\ buffer' = IPV4Seq_new)]_vars

\* two flows were tracked, neither complete, and a well-formed fragment of
\* one of them emptied the table
C2_Witness ==
    /\ calls = 3
    /\ prevflows = Keys
    /\ nret = 0
    /\ ~pkt.df /\ ~BadParity(pkt) /\ ~Wraps(pkt)
    /\ Len(pkt.payload) > 0
    /\ buffer = IPV4Seq_new
    /\ ret = None

\* C3: a DF fragment is returned as its own payload, whatever its offset, MF
\* flag, length and flow, and the table is left as it was.
C3_DFBypass ==
    [][(calls' = calls + 1 /\ pkt'.df)
        => (ret' = Some(VecOf(pkt'.payload)) /\ buffer' = buffer)]_vars

\* a DF fragment with MF set, a length that is no multiple of 8 and an end
\* offset beyond 16 bits came back while another flow was being tracked
C3_Witness ==
    /\ pkt.df /\ pkt.mf
    /\ pkt.offset = 8191
    /\ Len(pkt.payload) = 12
    /\ ret.some
    /\ ret.vec.len = 12
    /\ buffer # IPV4Seq_new
    /\ pkt.key \notin DOMAIN buffer

\* C4: a non-DF fragment with MF set and a length that is no multiple of 8, or
\* with an end offset that wraps in 16 bits, is dropped: nothing is returned
\* and the table is unchanged. With MF clear, no wrap and a length that is no
\* multiple of 8 the fragment is inserted (unless its range leaves a hole it
\* overlaps, which resets the table).
C4_MalformedDropped ==
    [][(calls' = calls + 1 /\ ~pkt'.df) =>
        /\ (BadParity(pkt') \/ Wraps(pkt')) => (ret' = None /\ buffer' = buffer)
        /\ (~pkt'.mf /\ Len(pkt'.payload) % 8 # 0 /\ ~Wraps(pkt')
                /\ ~Conflict(buffer, pkt'))
            => Inserted(buffer', ret', pkt')]_vars

\* a final fragment whose end offset wraps was dropped while its flow was
\* tracked with a hole
C4_Witness ==
    /\ ~pkt.df /\ ~pkt.mf
    /\ Wraps(pkt)
    /\ ret = None
    /\ pkt.key \in DOMAIN buffer
    /\ prevflows = DOMAIN buffer

----------------------------------------------------------------------------
(* Claims about the decoder and the sink *)

\* columns_per_frame * pixels_per_column
Threshold == metadata.columns_per_frame * metadata.pixels_per_column

\* this step is the decoder's work on a measurement block
BlockStep == ev'.n = ev.n + 1 /\ ev'.kind = "block"

\* this step sends a flush request
Flushes == Len(sent') = Len(sent) + 1

\* the f32 values a FileData carries
Entries(fd) == {fd.data[i][1] : i \in 1..Len(fd.data)}

\* C5: a flush request is enqueued exactly when the decoder, not broken,
\* works on a block with a valid status word and a frame id other than
\* current_frame while points_seen >= columns_per_frame*pixels_per_column;
\* with fewer readings at such a boundary the frame is dropped, nothing is
\* enqueued and the file counter stays; no other step enqueues.
C5_FlushAtFullBoundary ==
    [][/\ Flushes <=>
            /\ BlockStep
            /\ ~parser.current_broken
            /\ ValidStatus(ev'.block)
            /\ ev'.block.frame_id # parser.current_frame
            /\ parser.current_num_points >= Threshold
       /\ Flushes \/ sent' = sent
       /\ Flushes => chan' = Append(chan, sent'[Len(sent')].fd)
       /\ ~Flushes => Len(chan') <= Len(chan)
       /\ parser'.id = IF Flushes THEN parser.id + 1 ELSE parser.id
       /\ (/\ BlockStep
           /\ ~parser.current_broken
           /\ ValidStatus(ev'.block)
           /\ ev'.block.frame_id # parser.current_frame
           /\ parser.current_num_points < Threshold)
          => /\ parser'.current_num_points = metadata.pixels_per_column
             /\ Len(parser'.current_points) = 4 * ValidReadings(ev'.block)
             /\ parser'.current_frame = ev'.block.frame_id]_vars

\* a frame with readings, but fewer than the threshold, was dropped at a
\* frame boundary, and an earlier flush had been made
C5_Witness ==
    /\ ev.kind = "block"
    /\ ValidStatus(ev.block)
    /\ Len(sent) = 1
    /\ parser.id = 1
    /\ metadata.columns_per_frame = 2
    /\ parser.current_frame = ev.block.frame_id
    /\ parser.current_num_points = metadata.pixels_per_column
    /\ ev.n = 3

\* C6: no f32 of a flush request was pushed before a fault that came before
\* the flush, or while the broken flag was set: every flushed frame was
\* accumulated with the flag clear and no fault since its first reading.
C6_NoBrokenDataFlushed ==
    \A i \in 1..Len(sent) :
        \A e \in Entries(sent[i].fd) :
            e.faults = sent[i].faults /\ ~e.broken

\* a frame with points was flushed after the stream had been broken
C6_Witness ==
    /\ Len(sent) = 1
    /\ sent[1].faults = 1
    /\ Len(sent[1].fd.data) > 0
    /\ ~parser.current_broken

\* C7: a block the decoder accepts adds pixels_per_column to points_seen and
\* four f32 (x, y, z, intensity) for each valid reading, nothing for a
\* reading with range 0 or reflectivity 0.
C7_ReadingsCounted ==
    [][(/\ BlockStep
        /\ ValidStatus(ev'.block)
        /\ ~(parser.current_broken /\ ev'.block.frame_id = parser.current_frame))
       => LET new == ev'.block.frame_id # parser.current_frame
              num == IF new THEN 0 ELSE parser.current_num_points
              pts == IF new THEN << >> ELSE parser.current_points
              got == parser'.current_points
          IN  /\ parser'.current_num_points = num + metadata.pixels_per_column
              /\ Len(got) = Len(pts) + 4 * ValidReadings(ev'.block)
              /\ SubSeq(got, 1, Len(pts)) = pts
              /\ \A k \in (Len(pts) + 1)..Len(got) :
                    got[k].v[1] = << "x", "y", "z", "reflect" >>[((k - Len(pts) - 1) % 4) + 1]]_vars

\* a frame of invalid readings only was flushed, with no point, and the block
\* that ended it gave one point for its two readings
C7_Witness ==
    /\ Len(sent) = 1
    /\ sent[1].fd.header[4] = 0
    /\ sent[1].fd.data = << >>
    /\ metadata.pixels_per_column = 2
    /\ parser.current_num_points = 2
    /\ Len(parser.current_points) = 4

\* the blocks of the first frame of the given capture
FirstFrame ==
    LET bs == [i \in 1..metadata.columns_per_frame |->
                LET k == i - 1
                    cpp == metadata.columns_per_packet
                IN  capture.all[(k \div cpp) + 1].blocks[(k % cpp) + 1].block]
    IN  bs

RECURSIVE SumValid(_, _)
SumValid(bs, n) == IF n = 0 THEN 0 ELSE SumValid(bs, n - 1) + ValidReadings(bs[n])

\* C8 as stated: a capture of exactly two full frames yields two files. The
\* sink has ended by itself, so it wrote every request that was sent.
C8_TwoFiles ==
    sinkpc = "done" => Cardinality(DOMAIN files) = 2

\* C8: a capture of exactly two full frames, with nothing after the second,
\* yields exactly one flush request, for the first frame, and so at most one
\* output file; the second frame stays in the accumulator.
C8_OneFlush ==
    mainpc \in {"dropped", "exited"} =>
        /\ Len(sent) = 1
        /\ sent[1].fd.header[4] = SumValid(FirstFrame, metadata.columns_per_frame)
        /\ Len(sent[1].fd.data) = 16 * SumValid(FirstFrame, metadata.columns_per_frame)
        /\ sent[1].fd.path = << 0, 0, 0, 0, ".pcd" >>
        /\ parser.current_num_points = Threshold
        /\ Cardinality(DOMAIN files) <= 1
        /\ nwritten <= 1

\* the capture was read to its end, the sink wrote the one file and ended
C8_Witness ==
    /\ mainpc = "exited"
    /\ sinkpc = "done"
    /\ nwritten = 1
    /\ Len(sent) = 1
    /\ Len(sent[1].fd.data) > 0
    /\ metadata.columns_per_packet = 2

\* C9: the sink takes the requests in the order they were sent, each once,
\* and writes each to its own path as its header followed by its body.
C9_SinkInOrder ==
    /\ Len(taken) <= Len(sent)
    /\ \A i \in 1..Len(taken) : taken[i] = sent[i].fd
    /\ chan = [i \in 1..(Len(sent) - Len(taken)) |-> sent[Len(taken) + i].fd]
    /\ \A i, j \in 1..Len(sent) : i # j => sent[i].fd.path # sent[j].fd.path
    /\ nwritten = IF sinkpc \in {"recv", "done"} THEN Len(taken) ELSE Len(taken) - 1
    /\ DOMAIN files \subseteq {taken[i].path : i \in 1..Len(taken)}
    /\ \A i \in 1..nwritten : files[taken[i].path] = taken[i].header \o taken[i].data
    /\ sinkpc = "header" => files[file_data.path] = << >>
    /\ sinkpc = "data" => files[file_data.path] = file_data.header

\* two requests with different bodies were written, the second while the
\* first was still in the channel when it was sent
C9_Witness ==
    /\ nwritten = 2
    /\ Len(sent) = 2
    /\ sent[1].fd.data # sent[2].fd.data
    /\ Len(sent[1].fd.data) > 0
    /\ Cardinality(DOMAIN files) = 2

\* C10: when the program ends after the capture was read to its end, every
\* flush request that was sent has been written to its file.
C10_AllFlushesWritten ==
    (mainpc = "exited" /\ ev.kind # "panic") => nwritten = Len(sent)

----------------------------------------------------------------------------
(* Claims about main *)

\* C11: a datagram is handed to Legacy::put only if its IPv4 protocol is UDP
\* (17) and its destination port is the configured port.
C11_OnlyUdpOnPort ==
    [][ev'.n = ev.n + 1 =>
        /\ ret'.some
        /\ destination(ret'.vec) = Port
        /\ \A k \in (IF pkt'.df THEN {pkt'.key}
                     ELSE (DOMAIN buffer \cup {pkt'.key}) \ DOMAIN buffer') : k.proto = 17]_vars

----------------------------------------------------------------------------
(* More claims about the decoder *)

\* C12: the timestamp in the header of every flush request is the least
\* timestamp of the blocks accepted into the flushed frame, the first frame
\* of the stream included, whatever its frame id.
C12_TimestampIsMinimum ==
    \A i \in 1..Len(sent) :
        /\ sent[i].accepted.blocks > 0
        /\ sent[i].fd.header[2] = sent[i].accepted.timestamp

\* the name of the file with index k < 10000: four digits and the extension
IndexedName(k) ==
    << (k \div 1000) % 10, (k \div 100) % 10, (k \div 10) % 10, k % 10, ".pcd" >>

\* C13: the file counter equals the number of flush requests sent so far, and
\* the k-th request (k = 0, 1, ...) names the file of index k: the indices
\* are consecutive from 0, whatever frames were dropped and faults seen.
C13_CounterIsFlushCount ==
    /\ parser.id = Len(sent)
    /\ \A i \in 1..Len(sent) : sent[i].fd.path = IndexedName(i - 1)

\* two flushes were made
C13_Witness ==
    /\ Len(sent) = 2
    /\ parser.id = 2
    /\ sent[2].fd.path = << 0, 0, 0, 1, ".pcd" >>

----------------------------------------------------------------------------
(* More claims about the reassembler *)

\* the holes of a chunk are non-empty ranges inside [0,65535], pairwise
\* disjoint, and hold no offset at which a fragment's byte was written
HolesOk(chunk) ==
    /\ \A i \in 1..Len(chunk.holes) :
        /\ 0 <= chunk.holes[i].first
        /\ chunk.holes[i].first < chunk.holes[i].last
        /\ chunk.holes[i].last <= 65535
    /\ \A i, j \in 1..Len(chunk.holes) :
        i # j => \/ chunk.holes[i].last <= chunk.holes[j].first
                 \/ chunk.holes[j].last <= chunk.holes[i].first
    /\ \A o \in DOMAIN chunk.data : \A i \in 1..Len(chunk.holes) :
        ~(chunk.holes[i].first <= o /\ o < chunk.holes[i].last)

\* every hole of `new` lies inside a hole of `old`
HolesWithin(new, old) ==
    \A i \in 1..Len(new.holes) : \E j \in 1..Len(old.holes) :
        /\ old.holes[j].first <= new.holes[i].first
        /\ new.holes[i].last <= old.holes[j].last

\* C14: in every state of the reassembler the holes of every tracked flow are
\* non-empty ranges inside [0,65535], pairwise disjoint, and hold no offset
\* covered by a fragment inserted for the flow; and no call makes the holes
\* of a flow it keeps cover an offset they did not cover before.
C14_HolesShrink ==
    /\ [](\A k \in DOMAIN buffer : HolesOk(buffer[k]))
    /\ [][\A k \in DOMAIN buffer \cap DOMAIN buffer' :
            HolesWithin(buffer'[k], buffer[k])]_vars

\* a fragment was put in the middle of a flow's only hole, and another
\* after it: the flow has three holes around the bytes written
C14_Witness ==
    \E k \in DOMAIN buffer :
        /\ Len(buffer[k].holes) = 3
        /\ DOMAIN buffer[k].data # {}
        /\ calls = 2

\* C15: when a call for a fragment without DF leaves a flow with an empty
\* hole list after its insertion, it returns a datagram and takes that flow
\* out of the table: a call never returns nothing while a flow with an empty
\* hole list stays in the table.
C15_CompleteFlowReturned ==
    [][(calls' = calls + 1 /\ ~pkt'.df) =>
        /\ ~ret'.some => \A k \in DOMAIN buffer' : buffer'[k].holes # << >>
        /\ ret'.some =>
            \E k \in (DOMAIN buffer \cup {pkt'.key}) \ DOMAIN buffer' :
                /\ DOMAIN buffer' = (DOMAIN buffer \cup {pkt'.key}) \ {k}
                /\ k # pkt'.key => /\ buffer[k].holes = << >>
                                   /\ ret'.vec.len = buffer[k].len]_vars

----------------------------------------------------------------------------
(* Claims about the broken flag *)

\* C17: while the decoder is broken, a block with a valid status word and
\* the frame id of current_frame changes nothing and leaves it broken; the
\* flag is cleared only by a block with a valid status word and another frame
\* id, and that block empties the buffer, starts the new current frame with
\* its own timestamp and has its channels accumulated, with no flush.
C17_BrokenUntilNewFrame ==
    [][/\ (/\ BlockStep
           /\ parser.current_broken
           /\ ValidStatus(ev'.block)
           /\ ev'.block.frame_id = parser.current_frame)
          => /\ parser' = parser
             /\ sent' = sent
             /\ chan' = chan
       /\ (parser.current_broken /\ ~parser'.current_broken)
          => /\ BlockStep
             /\ ValidStatus(ev'.block)
             /\ ev'.block.frame_id # parser.current_frame
       /\ (/\ BlockStep
           /\ parser.current_broken
           /\ ValidStatus(ev'.block)
           /\ ev'.block.frame_id # parser.current_frame)
          => /\ ~parser'.current_broken
             /\ parser'.current_frame = ev'.block.frame_id
             /\ parser'.current_timestamp = ev'.block.timestamp
             /\ parser'.current_num_points = metadata.pixels_per_column
             /\ Len(parser'.current_points) = 4 * ValidReadings(ev'.block)
             /\ \A i \in 1..Len(parser'.current_points) :
                    parser'.current_points[i].faults = parser.faults
             /\ parser'.id = parser.id
             /\ sent' = sent
             /\ chan' = chan]_vars

\* after a fault, a block of another frame cleared the flag and left its own
\* points only, with nothing flushed
C17_Witness ==
    /\ ev.n = 3
    /\ ev.kind = "block"
    /\ ev.was.broken
    /\ ~parser.current_broken
    /\ parser.faults = 1
    /\ metadata.columns_per_frame = 1
    /\ Len(parser.current_points) > 0
    /\ parser.current_points[1].faults = 1
    /\ parser.current_frame = 2
    /\ sent = << >>

\* the readings accepted into the current frame
Readings == parser.accepted.blocks * metadata.pixels_per_column

\* this step works on a block with a valid status word and another frame id
\* than current_frame, with a full frame accepted
FullBoundary ==
    /\ BlockStep
    /\ ValidStatus(ev'.block)
    /\ ev'.block.frame_id # parser.current_frame
    /\ Readings >= Threshold

\* C18 as stated: a frame with at least columns_per_frame*pixels_per_column
\* readings accepted is flushed by the first valid block of another frame id,
\* also when a fault came after its last reading.
C18_FullFrameFlushed ==
    [][FullBoundary =>
        /\ Flushes
        /\ sent'[Len(sent')].accepted = parser.accepted]_vars

\* C18: a frame with at least columns_per_frame*pixels_per_column readings
\* accepted is flushed by the first valid block of another frame id if no
\* fault came since its first reading; after a fault, also one that came
\* after the frame's last reading, that block flushes nothing and the frame
\* is discarded.
C18_FullFrameFlushedUnlessFault ==
    [][FullBoundary =>
        IF parser.current_broken
        THEN /\ sent' = sent
             /\ chan' = chan
             /\ parser'.id = parser.id
             /\ parser'.accepted = Accept(NoneAccepted, ev'.block)
             /\ Len(parser'.current_points) = 4 * ValidReadings(ev'.block)
        ELSE /\ Flushes
             /\ sent'[Len(sent')].accepted = parser.accepted
             /\ sent'[Len(sent')].faults = parser.faults]_vars

\* a frame of one column was accepted, a fault came, and the block of the
\* next frame found it discarded: nothing was sent
C18_Witness ==
    /\ ev.kind = "block"
    /\ ev.was.broken
    /\ ev.was.accepted = 1
    /\ parser.faults = 1
    /\ parser.accepted.blocks = 1
    /\ metadata.columns_per_frame = 1
    /\ metadata.pixels_per_column = 2
    /\ sent = << >>
    /\ parser.id = 0

----------------------------------------------------------------------------
(* Claims about Legacy::put and the point buffer *)

\* C19: Legacy::put returns normally for every payload of at least
\* columns_per_packet * (20 + 12 * pixels_per_column) bytes, also when the
\* length is no multiple of the block length: its loop never reads past the
\* end of the payload.
C19_PutReturnsNormally ==
    /\ mainpc # "panicked"
    /\ ev.kind # "panic"

\* C20: the point buffer always holds four f32 for each valid reading of the
\* blocks accepted into the current frame, so at most 4 * current_num_points;
\* every flush request announces as WIDTH and POINTS the valid readings of the
\* flushed frame and carries 16 bytes for each.
C20_FourPerValidReading ==
    /\ Len(parser.current_points) % 4 = 0
    /\ Len(parser.current_points) = 4 * parser.accepted.valid
    /\ Len(parser.current_points) <= 4 * parser.current_num_points
    /\ \A i \in 1..Len(sent) :
        LET n == sent[i].accepted.valid
        IN  /\ sent[i].fd.header[4] = n
            /\ sent[i].fd.header[6] = n
            /\ Len(sent[i].fd.data) = 16 * n

\* a frame of two blocks with one valid reading among their four was flushed
\* with one point, and the next frame holds two points
C20_Witness ==
    /\ Len(sent) = 1
    /\ sent[1].accepted.blocks = 2
    /\ metadata.pixels_per_column = 2
    /\ sent[1].fd.header[6] = 1
    /\ Len(sent[1].fd.data) = 16
    /\ Len(parser.current_points) = 8
    /\ parser.current_num_points = 2

============================================================================
